---- MODULE Spec2Model ----
(***************************************************************************)
(* Price-drop monitor of binance.py: LocalSymbolStorage (windowed maximum  *)
(* store), SymbolMonitor.reg_price, init_monitors / handler (dispatcher)   *)
(* and the create_websocket feed loop, together with the three unit tests  *)
(* of tests.py, which drive reg_price directly.                            *)
(*                                                                         *)
(* Prices are floats in the source.  They are modelled as integers in      *)
(* tenths (99.8 is 998, the sentinel -1.0 is -10); the relative drop is    *)
(* kept as an exact fraction.  On the price grid used here the float       *)
(* comparison diff > threshold and the exact one agree (1.0/100.0 is the   *)
(* same double as the literal 0.01).                                       *)
(* Time is an integer clock; datetime.now() reads it.  The lifetime of one *)
(* hour is Lifetime clock units.                                           *)
(***************************************************************************)
EXTENDS Integers, Sequences, FiniteSets, TLC

\* ------------------------------------------------------------ bounds
MaxTime == 3
MaxTicks == 3
MaxFeed == 1

\* ------------------------------------------------- program constants
\* timedelta(hours=1), in clock units
Lifetime == 2
\* the sentinel price -1.0, in tenths
Sentinel == -10
\* thresholds are hundredths: alert_threshold 0.01 is 1
ThresholdDen == 100

symbols_config ==
  << [symbol |-> "xrpusdt", alert_threshold |-> 1],
     [symbol |-> "btcusdt", alert_threshold |-> 5] >>

\* a configuration that names one symbol twice
duplicate_config ==
  << [symbol |-> "xrpusdt", alert_threshold |-> 1],
     [symbol |-> "xrpusdt", alert_threshold |-> 5] >>

\* the configurations init_monitors may be given
Configs == {symbols_config, duplicate_config}

\* prices the live feed may carry (tenths): 0, 99.5, 100.0, 101.0, 500.0
Prices == {0, 995, 1000, 1010, 5000}

StreamName(symbol) == <<symbol, "@trade">>

\* streams the transport may deliver: the configured ones and a foreign one
FeedStreams == {StreamName("xrpusdt"), StreamName("btcusdt"), StreamName("ethusdt")}

\* tests.py builds one monitor by hand and calls reg_price on it
TestKey == <<"test", "direct">>
Tests == {"test_alert_called", "test_alert_not_called", "test_lifetime"}

VARIABLES
  mode,           \* "live" (create_websocket) or the name of a unit test
  config,         \* the configuration list given to init_monitors
  now,            \* the clock datetime.now() reads
  monitors,       \* init_monitors: stream name -> [symbol, threshold]
  price_history,  \* per monitor: LocalSymbolStorage._price_history, price -> datetime
  max_key,        \* per monitor: LocalSymbolStorage._max_key
  feed,           \* messages received by the socket and not yet handled
  pc,             \* position of the feed loop: "recv", "alert" (awaiting the sink), "crashed"
  cur,            \* the tick whose reg_price is suspended in the sink
  err,            \* the exception that left the loop, "none" if none
  calls           \* history: one record per reg_price call, in order

vars == <<mode, config, now, monitors, price_history, max_key, feed, pc, cur, err, calls>>

\* ------------------------------------------------------------ helpers
Max2(a, b) == IF a >= b THEN a ELSE b

MaxOf(S) == CHOOSE x \in S : \A y \in S : y <= x

Assign_KeepExisting(f, k, v) ==
  [x \in (DOMAIN f) \cup {k} |-> IF x \in DOMAIN f THEN f[x] ELSE v]

Assign(f, k, v) == [x \in (DOMAIN f) \cup {k} |-> IF x = k THEN v ELSE f[x]]

Pop(f, k) == [x \in (DOMAIN f) \ {k} |-> f[x]]

EmptyMap == [x \in {} |-> 0]

\* ------------------------------------------------- LocalSymbolStorage
\* __init__: the sentinel entry, stamped with the construction time
NewStorage(t) == [price_history |-> Assign(EmptyMap, Sentinel, t), max_key |-> Sentinel]

\* the while loop of store(): pops the maximum while it is older than lifetime.
\* dict.get of a missing key gives None (AttributeError on .datetime);
\* max() of no keys raises ValueError, after the pop and before the assignment.
\* n counts the pops made so far.  A loop still running after more than
\* limit pops is cut off as "NoTermination", so that a loop without end
\* shows as a result instead of an evaluation without end.
RECURSIVE EvictIter_PopsNothing(_, _, _, _, _)
EvictIter_PopsNothing(h, mk, t, n, limit) ==
  IF n > limit
  THEN [price_history |-> h, max_key |-> mk, err |-> "NoTermination", evictions |-> n]
  ELSE IF mk \notin DOMAIN h
  THEN [price_history |-> h, max_key |-> mk, err |-> "AttributeError", evictions |-> n]
  ELSE IF t - h[mk] > Lifetime
       THEN EvictIter_PopsNothing(h, MaxOf(DOMAIN h), t, n + 1, limit)
       ELSE [price_history |-> h, max_key |-> mk, err |-> "none", evictions |-> n]

RECURSIVE EvictIter(_, _, _, _, _)
EvictIter(h, mk, t, n, limit) ==
  IF n > limit
  THEN [price_history |-> h, max_key |-> mk, err |-> "NoTermination", evictions |-> n]
  ELSE IF mk \notin DOMAIN h
  THEN [price_history |-> h, max_key |-> mk, err |-> "AttributeError", evictions |-> n]
  ELSE IF t - h[mk] > Lifetime
       THEN LET h2 == Pop(h, mk)
            IN IF DOMAIN h2 = {}
               THEN [price_history |-> h2, max_key |-> mk, err |-> "ValueError",
                     evictions |-> n + 1]
               ELSE EvictIter(h2, MaxOf(DOMAIN h2), t, n + 1, limit)
       ELSE [price_history |-> h, max_key |-> mk, err |-> "none", evictions |-> n]

EvictLoop_EvictAtLifetime(h, mk, t) ==
  LET RECURSIVE Loop(_, _, _)
      Loop(hh, kk, n) ==
        IF kk \notin DOMAIN hh
        THEN [price_history |-> hh, max_key |-> kk, err |-> "AttributeError", evictions |-> n]
        ELSE IF t - hh[kk] >= Lifetime
             THEN LET h2 == Pop(hh, kk)
                  IN IF DOMAIN h2 = {}
                     THEN [price_history |-> h2, max_key |-> kk, err |-> "ValueError",
                           evictions |-> n + 1]
                     ELSE Loop(h2, MaxOf(DOMAIN h2), n + 1)
             ELSE [price_history |-> hh, max_key |-> kk, err |-> "none", evictions |-> n]
  IN Loop(h, mk, 0)

EvictLoop_NoEviction(h, mk, t) ==
  IF mk \notin DOMAIN h
  THEN [price_history |-> h, max_key |-> mk, err |-> "AttributeError", evictions |-> 0]
  ELSE [price_history |-> h, max_key |-> mk, err |-> "none", evictions |-> 0]

EvictLoop_PurgeExpired(h, mk, t) ==
  LET keep == {k \in DOMAIN h : t - h[k] <= Lifetime}
      gone == Cardinality(DOMAIN h) - Cardinality(keep)
  IN IF mk \notin DOMAIN h
     THEN [price_history |-> h, max_key |-> mk, err |-> "AttributeError", evictions |-> 0]
     ELSE IF keep = {}
     THEN [price_history |-> EmptyMap, max_key |-> mk, err |-> "ValueError", evictions |-> gone]
     ELSE [price_history |-> [k \in keep |-> h[k]], max_key |-> MaxOf(keep), err |-> "none",
           evictions |-> gone]

EvictLoop(h, mk, t) == EvictIter(h, mk, t, 0, Cardinality(DOMAIN h))

\* store(PriceAtTime(p, t)): evict, then insert/overwrite, then max_key = max(p, max_key)
Store_MaxKeyIsNewPrice(h, mk, p, t) ==
  LET e == EvictLoop(h, mk, t)
  IN IF e.err # "none" THEN e
     ELSE [price_history |-> Assign(e.price_history, p, t),
           max_key |-> p,
           err |-> "none", evictions |-> e.evictions]

Store(h, mk, p, t) ==
  LET e == EvictLoop(h, mk, t)
  IN IF e.err # "none" THEN e
     ELSE [price_history |-> Assign(e.price_history, p, t),
           max_key |-> Max2(p, e.max_key),
           err |-> "none", evictions |-> e.evictions]

\* get_price(): the cached maximum, no expiry check
get_price(mk) == mk

\* one call of get_price() on a store: the value returned and the store the
\* call leaves behind (it writes nothing)
get_price_call_ExpiryOnRead(h, mk) ==
  LET e == EvictLoop(h, mk, now)
  IN [value |-> e.max_key, price_history |-> e.price_history, max_key |-> e.max_key]

get_price_call(h, mk) == [value |-> get_price(mk), price_history |-> h, max_key |-> mk]

\* --------------------------------------------------------- comparison
\* DROP_RELATIVE = lambda old, new: (old - new) / new ; float division by
\* zero raises ZeroDivisionError
DROP_RELATIVE_Rise(old, new) ==
  IF new = 0 THEN [err |-> "ZeroDivisionError", num |-> 0, den |-> 1]
  ELSE [err |-> "none", num |-> new - old, den |-> new]

DROP_RELATIVE(old, new) ==
  IF new = 0 THEN [err |-> "ZeroDivisionError", num |-> 0, den |-> 1]
  ELSE [err |-> "none", num |-> old - new, den |-> new]

\* diff > self.threshold, diff = num/den, threshold in hundredths
ExceedsThreshold_NotStrict(diff, threshold) ==
  IF diff.den > 0 THEN diff.num * ThresholdDen >= threshold * diff.den
  ELSE diff.num * ThresholdDen <= threshold * diff.den

ExceedsThreshold(diff, threshold) ==
  IF diff.den > 0 THEN diff.num * ThresholdDen > threshold * diff.den
  ELSE diff.num * ThresholdDen < threshold * diff.den

\* ------------------------------------------------------ init_monitors
RECURSIVE BuildMonitors(_, _)
BuildMonitors(cfg, acc) ==
  IF cfg = <<>> THEN acc
  ELSE BuildMonitors(Tail(cfg),
         Assign(acc, StreamName(Head(cfg).symbol),
                [symbol |-> Head(cfg).symbol,
                 threshold |-> Head(cfg).alert_threshold,
                 alert_service |-> "ConsoleAlertService"]))

\* one ConsoleAlertService is created (line 150) and handed to every monitor
init_monitors(cfg) == BuildMonitors(cfg, EmptyMap)

\* monitors[stream]: KeyError when the stream has no monitor
MonitorLookup_Fallback(table, stream) ==
  IF stream \in DOMAIN table THEN [err |-> "none", key |-> stream]
  ELSE [err |-> "none", key |-> CHOOSE k \in DOMAIN table : TRUE]

MonitorLookup(table, stream) ==
  IF stream \in DOMAIN table THEN [err |-> "none", key |-> stream]
  ELSE [err |-> "KeyError", key |-> stream]

\* ------------------------------------------------------------- tests
\* the reg_price calls of each test of tests.py
TestScript(test) ==
  CASE test = "test_alert_called"     -> <<100, 1000, 990>>
    [] test = "test_alert_not_called" -> <<100, 1000, 998>>
    [] test = "test_lifetime"         -> <<1010>>

\* test_lifetime writes two entries into _price_history and sets _max_key:
\* 100 observed now, 500 observed 1 h 1 min ago
TestHistory(test, t) ==
  IF test = "test_lifetime"
  THEN Assign(Assign(NewStorage(t).price_history, 1000, t), 5000, t - Lifetime - 1)
  ELSE NewStorage(t).price_history

TestMaxKey(test, t) == IF test = "test_lifetime" THEN 5000 ELSE NewStorage(t).max_key

\* ------------------------------------------------------------- state
Init ==
  /\ mode \in {"live"} \cup Tests
  /\ now = 0
  /\ pc = "recv"
  /\ cur = <<>>
  /\ err = "none"
  /\ calls = <<>>
  /\ IF mode = "live"
     THEN /\ config \in Configs
          /\ monitors = init_monitors(config)
          /\ price_history = [s \in DOMAIN monitors |-> NewStorage(now).price_history]
          /\ max_key = [s \in DOMAIN monitors |-> NewStorage(now).max_key]
          /\ feed = <<>>
     ELSE /\ config = <<>>
          /\ monitors = Assign(EmptyMap, TestKey,
                               [symbol |-> "test", threshold |-> 1,
                                alert_service |-> "AlertServiceMock"])
          /\ price_history = [s \in DOMAIN monitors |-> TestHistory(mode, now)]
          /\ max_key = [s \in DOMAIN monitors |-> TestMaxKey(mode, now)]
          /\ feed = [i \in 1..Len(TestScript(mode)) |->
                       [stream |-> TestKey, p |-> TestScript(mode)[i]]]

\* the record kept for each reg_price call: the tick, the value get_price()
\* returned, the number of sink invocations, the clock at the comparison and
\* at the store, how the call ended, the number of entries its store()
\* popped, and the store as the call found it
CallRecord(s, p, outcome, alerts) ==
  [stream |-> s, price |-> p,
   stored |-> get_price_call(price_history[s], max_key[s]).value, alerts |-> alerts,
   cmpAt |-> now, at |-> now, outcome |-> outcome, evictions |-> 0,
   pre |-> price_history[s], preMax |-> max_key[s]]

\* line 142: store(PriceAtTime(price, datetime.now())), and the return to the loop
StoreStep_SharedStorage(s, h, mk, p, newcalls) ==
  LET r == Store(h, mk, p, now)
      n == Len(newcalls)
  IN /\ price_history' = [x \in DOMAIN price_history |-> r.price_history]
     /\ max_key' = [x \in DOMAIN max_key |-> r.max_key]
     /\ err' = r.err
     /\ pc' = IF r.err = "none" THEN "recv" ELSE "crashed"
     /\ cur' = <<>>
     /\ calls' = [newcalls EXCEPT ![n].outcome = IF r.err = "none" THEN "stored" ELSE r.err,
                                  ![n].at = now,
                                  ![n].evictions = r.evictions]

StoreStep(s, h, mk, p, newcalls) ==
  LET r == Store(h, mk, p, now)
      n == Len(newcalls)
  IN /\ price_history' = [price_history EXCEPT ![s] = r.price_history]
     /\ max_key' = [max_key EXCEPT ![s] = r.max_key]
     /\ err' = r.err
     /\ pc' = IF r.err = "none" THEN "recv" ELSE "crashed"
     /\ cur' = <<>>
     /\ calls' = [newcalls EXCEPT ![n].outcome = IF r.err = "none" THEN "stored" ELSE r.err,
                                  ![n].at = now,
                                  ![n].evictions = r.evictions]

\* reg_price up to its first suspension point (the await of the sink), or
\* to its end when no alert is due
reg_price(s, p) ==
  LET rd == get_price_call(price_history[s], max_key[s])
      stored == rd.value
      diff == DROP_RELATIVE(stored, p)
  IN IF diff.err # "none"
     THEN /\ err' = diff.err
          /\ pc' = "crashed"
          /\ calls' = Append(calls, CallRecord(s, p, diff.err, 0))
          /\ price_history' = [price_history EXCEPT ![s] = rd.price_history]
          /\ max_key' = [max_key EXCEPT ![s] = rd.max_key]
          /\ UNCHANGED cur
     ELSE IF ExceedsThreshold(diff, monitors[s].threshold)
          THEN /\ pc' = "alert"
               /\ cur' = [stream |-> s, p |-> p]
               /\ calls' = Append(calls, CallRecord(s, p, "pending", 1))
               /\ price_history' = [price_history EXCEPT ![s] = rd.price_history]
               /\ max_key' = [max_key EXCEPT ![s] = rd.max_key]
               /\ UNCHANGED err
          ELSE StoreStep(s, rd.price_history, rd.max_key, p,
                         Append(calls, CallRecord(s, p, "pending", 0)))

\* ----------------------------------------------------------- actions
\* the clock advances
Tick ==
  /\ pc # "crashed"
  /\ now < MaxTime
  /\ now' = now + 1
  /\ UNCHANGED <<mode, config, monitors, price_history, max_key, feed, pc, cur, err, calls>>

\* the transport delivers a message; it waits in the socket until recv()
Arrive ==
  /\ mode = "live"
  /\ pc # "crashed"
  /\ Len(feed) < MaxFeed
  /\ Len(calls) + Len(feed) < MaxTicks
  /\ \E s \in FeedStreams, p \in Prices :
       feed' = Append(feed, [stream |-> s, p |-> p])
  /\ UNCHANGED <<mode, config, now, monitors, price_history, max_key, pc, cur, err, calls>>

\* create_websocket: msg = await ws.recv(); await handler(msg)
handler_NotAwaited ==
  /\ mode = "live"
  /\ pc \in {"recv", "alert"}
  /\ feed # <<>>
  /\ feed' = Tail(feed)
  /\ LET m == MonitorLookup(monitors, Head(feed).stream)
     IN IF m.err # "none"
        THEN /\ err' = m.err
             /\ pc' = "crashed"
             /\ UNCHANGED <<price_history, max_key, cur, calls>>
        ELSE reg_price(m.key, Head(feed).p)
  /\ UNCHANGED <<mode, config, now, monitors>>

handler ==
  /\ mode = "live"
  /\ pc = "recv"
  /\ feed # <<>>
  /\ feed' = Tail(feed)
  /\ LET m == MonitorLookup(monitors, Head(feed).stream)
     IN IF m.err # "none"
        THEN /\ err' = m.err
             /\ pc' = "crashed"
             /\ UNCHANGED <<price_history, max_key, cur, calls>>
        ELSE reg_price(m.key, Head(feed).p)
  /\ UNCHANGED <<mode, config, now, monitors>>

\* tests.py: loop.run_until_complete(monitor.reg_price(p))
TestCall ==
  /\ mode \in Tests
  /\ pc = "recv"
  /\ feed # <<>>
  /\ feed' = Tail(feed)
  /\ reg_price(Head(feed).stream, Head(feed).p)
  /\ UNCHANGED <<mode, config, now, monitors>>

\* the sink returns: reg_price resumes at line 142
AlertReturn ==
  /\ pc = "alert"
  /\ StoreStep(cur.stream, price_history[cur.stream], max_key[cur.stream], cur.p, calls)
  /\ UNCHANGED <<mode, config, now, monitors, feed>>

\* the sink raises: nothing catches it in reg_price, handler or create_websocket
AlertRaise ==
  /\ mode = "live"
  /\ pc = "alert"
  /\ err' = "SinkError"
  /\ pc' = "crashed"
  /\ cur' = <<>>
  /\ calls' = [calls EXCEPT ![Len(calls)].outcome = "SinkError"]
  /\ UNCHANGED <<mode, config, now, monitors, price_history, max_key, feed>>

Next == Tick \/ Arrive \/ handler \/ TestCall \/ AlertReturn \/ AlertRaise

Spec == Init /\ [][Next]_vars

\* ------------------------------------------------ reading the history
LastCall == calls[Len(calls)]

CallsOn(s) == {i \in 1..Len(calls) : calls[i].stream = s}

StoredOn(s) == {i \in CallsOn(s) : calls[i].outcome = "stored"}

\* the prices of the observations stored before call i on its monitor that
\* are no older than the lifetime as of time asOf
WindowPrices(i, asOf) ==
  {calls[j].price : j \in {k \in StoredOn(calls[i].stream) :
                              k < i /\ asOf - calls[k].at <= Lifetime}}

\* (ref - p) / p > T, for a positive price p, T in hundredths
DropExceeds(ref, p, T) == p > 0 /\ (ref - p) * ThresholdDen > T * p

\* the relative drop of call i's price from the highest price observed
\* within the lifetime window ending at the tick's own time exceeds T.  A
\* tick that finds every earlier observation expired has no window maximum:
\* it is counted as exceeding, so that the statement below says nothing
\* about sequences with such a tick.
WindowDropExceeds(i) ==
  LET W == WindowPrices(i, calls[i].cmpAt)
  IN IF W = {}
     THEN \E k \in StoredOn(calls[i].stream) : k < i
     ELSE DropExceeds(MaxOf(W), calls[i].price, monitors[calls[i].stream].threshold)

\* the same drop, from the highest price within the window ending at the
\* previous store of the monitor
RefDropExceeds(i) ==
  LET P == {k \in StoredOn(calls[i].stream) : k < i}
  IN P # {} /\
     LET W == WindowPrices(i, calls[MaxOf(P)].at)
     IN W # {} /\ DropExceeds(MaxOf(W), calls[i].price, monitors[calls[i].stream].threshold)

\* the sequence of sink invocation counts of the calls made so far
AlertCounts == [i \in 1..Len(calls) |-> calls[i].alerts]

\* ---------------------------------------------------------------- C1
\* C1: reg_price(p) invokes the sink exactly once when (stored - p)/p > T
\* strictly and not at all otherwise, stored being what get_price() returned
\* before p was stored; with T = 0.01 and all ticks within the lifetime of
\* the construction, 10, 100, 99 alerts once, on the third tick, and
\* 10, 100, 99.8 never alerts.
AlertIffDropExceeds ==
  /\ \A i \in 1..Len(calls) :
       calls[i].alerts =
         IF DropExceeds(calls[i].preMax, calls[i].price, monitors[calls[i].stream].threshold)
         THEN 1 ELSE 0
  /\ (mode = "test_alert_called" /\ feed = <<>> /\ pc = "recv" /\ now <= Lifetime)
       => AlertCounts = <<0, 0, 1>>
  /\ (mode = "test_alert_not_called" /\ feed = <<>> /\ pc = "recv" /\ now <= Lifetime)
       => AlertCounts = <<0, 0, 0>>

AlertIffDropExceeds_Witness ==
  /\ mode = "test_alert_called" /\ feed = <<>> /\ pc = "recv" /\ now <= Lifetime
  /\ Len(calls) = 3 /\ LastCall.alerts = 1 /\ LastCall.outcome = "stored"

\* ---------------------------------------------------------------- C2
\* C2 as stated: on a monitor written only by reg_price, if at no tick the
\* relative drop of the new price from the maximum of the observations
\* within the lifetime window at that tick's time exceeds T, no alert fires.
NoAlertBelowWindowDrop ==
  mode # "test_lifetime" =>
    \A s \in DOMAIN monitors :
      (\A i \in CallsOn(s) : ~WindowDropExceeds(i)) => (\A i \in CallsOn(s) : calls[i].alerts = 0)

\* C2 amended: the same with the reference price get_price() returns, the
\* maximum of the observations within the window as of the previous store of
\* the monitor (it may have expired by the time of the tick).
NoAlertBelowReferenceDrop ==
  mode # "test_lifetime" =>
    \A s \in DOMAIN monitors :
      (\A i \in CallsOn(s) : ~RefDropExceeds(i)) => (\A i \in CallsOn(s) : calls[i].alerts = 0)

\* a price fell from the reference by exactly the threshold or less, the
\* reference had expired by then, and nothing alerted
NoAlertBelowReferenceDrop_Witness ==
  /\ mode = "live" /\ pc = "recv" /\ Len(calls) >= 2
  /\ \A i \in 1..Len(calls) : ~RefDropExceeds(i) /\ calls[i].alerts = 0
  /\ LastCall.outcome = "stored" /\ LastCall.stored > LastCall.price
  /\ LastCall.cmpAt - LastCall.pre[LastCall.preMax] > Lifetime

\* ---------------------------------------------------------------- C3
\* C3: eviction never leaves a store empty: the loop always finds a maximum
\* entry, store() never fails, the map is non-empty in every reachable state.
StoreNeverEmpty ==
  /\ \A s \in DOMAIN monitors : DOMAIN price_history[s] # {}
  /\ err \notin {"ValueError", "AttributeError"}

\* ---------------------------------------------------------------- C4
\* C4: after every completed store(), and until the next one, max_key is the
\* largest key of the map whose observation is no older than the lifetime
\* relative to the observation just stored.
MaxKeyIsFreshMaximum ==
  \A s \in DOMAIN monitors :
    (StoredOn(s) # {} /\ calls[MaxOf(CallsOn(s))].outcome \in {"stored", "pending", "SinkError"})
      => LET a == calls[MaxOf(StoredOn(s))].at
             h == price_history[s]
             fresh == {k \in DOMAIN h : a - h[k] <= Lifetime}
         IN fresh # {} /\ max_key[s] = MaxOf(fresh)

\* a store evicted the expired maximum and left an expired smaller entry
MaxKeyIsFreshMaximum_Witness ==
  /\ calls # <<>> /\ LastCall.outcome = "stored"
  /\ LastCall.preMax \notin DOMAIN price_history[LastCall.stream]
  /\ \E k \in DOMAIN price_history[LastCall.stream] :
       LastCall.at - price_history[LastCall.stream][k] > Lifetime

\* ---------------------------------------------------------------- C5
\* C5: the comparison of reg_price(p) reads the store as earlier ticks left
\* it, and every reg_price(p) call ends with an observation for p in the
\* store, alert or not (stated for the prices the comparison is defined on,
\* p # 0).
ObservationStoredAfterEveryCall ==
  (calls # <<>> /\ LastCall.outcome # "pending" /\ LastCall.price # 0)
    => /\ LastCall.stored = LastCall.preMax
       /\ LastCall.price \in DOMAIN price_history[LastCall.stream]

\* ---------------------------------------------------------------- C6
\* C6: when the sink raises, the failure does not leave tick processing: the
\* observation of that tick is stored and the feed loop goes on.
SinkFailureStaysLocal ==
  \A i \in 1..Len(calls) :
    calls[i].outcome = "SinkError"
      => /\ pc # "crashed"
         /\ err = "none"
         /\ calls[i].price \in DOMAIN price_history[calls[i].stream]

\* ---------------------------------------------------------------- C7
\* C7: handling a tick whose stream has no monitor surfaces an error and
\* leaves every monitor and every store as it was.
DispatchMissSurfaced ==
  [][(mode = "live" /\ pc = "recv" /\ feed # <<>> /\ feed' = Tail(feed)
        /\ Head(feed).stream \notin DOMAIN monitors)
      => (err' = "KeyError" /\ pc' = "crashed"
            /\ UNCHANGED <<monitors, price_history, max_key, calls>>)]_vars

DispatchMissSurfaced_Witness ==
  /\ err = "KeyError" /\ pc = "crashed"
  /\ \E s \in DOMAIN monitors : Cardinality(DOMAIN price_history[s]) > 1

\* ---------------------------------------------------------------- C8
\* C8: store() removes the expired maximum entries before the new maximum is
\* computed and before the observation is inserted; the size afterwards is
\* the size before, less the evicted entries, plus one when the price is not
\* a key at the insertion.  In test_lifetime (sentinel, fresh 100, stale
\* maximum 500) storing 101 while 100 is still fresh leaves 3 entries, 500
\* gone, maximum 101.
ExpiredTop(h, t) == {k \in DOMAIN h : \A j \in DOMAIN h : j >= k => t - h[j] > Lifetime}

EvictionBeforeInsert ==
  /\ (calls # <<>> /\ LastCall.outcome = "stored") =>
       LET c == LastCall
           kept == (DOMAIN c.pre) \ ExpiredTop(c.pre, c.at)
           h == price_history[c.stream]
       IN /\ DOMAIN h = kept \cup {c.price}
          /\ Cardinality(DOMAIN h) =
               Cardinality(DOMAIN c.pre) - Cardinality(ExpiredTop(c.pre, c.at))
                 + (IF c.price \in kept THEN 0 ELSE 1)
          /\ \A k \in kept \ {c.price} : h[k] = c.pre[k]
          /\ h[c.price] = c.at
          /\ max_key[c.stream] = MaxOf(kept \cup {c.price})
  /\ (mode = "test_lifetime" /\ feed = <<>> /\ pc = "recv" /\ now <= Lifetime) =>
       /\ DOMAIN price_history[TestKey] = {Sentinel, 1000, 1010}
       /\ max_key[TestKey] = 1010

EvictionBeforeInsert_Witness ==
  /\ mode = "test_lifetime" /\ feed = <<>> /\ pc = "recv" /\ now <= Lifetime
  /\ LastCall.outcome = "stored" /\ 5000 \in DOMAIN LastCall.pre
  /\ Cardinality(DOMAIN price_history[TestKey]) = 3

\* ---------------------------------------------------------------- C9
\* C9: the sentinel leaves the map once real data has aged past it, and the
\* store keeps operating afterwards.
SentinelEvictedAndStoreOperates ==
  \A s \in DOMAIN monitors :
    LET h == price_history[s]
    IN /\ Sentinel \notin DOMAIN h => err = "none"
       /\ (Sentinel \in DOMAIN h /\ StoredOn(s) # {})
            => calls[MaxOf(StoredOn(s))].at - h[Sentinel] <= Lifetime

\* --------------------------------------------------------------- C10
\* C10: while the sink call of one symbol's tick is suspended, a tick of
\* another symbol waiting on the shared feed can be taken and processed.
AlertDoesNotBlockFeed ==
  (pc = "alert" /\ feed # <<>> /\ Head(feed).stream \in DOMAIN monitors
     /\ Head(feed).stream # cur.stream)
    => ENABLED handler

\* --------------------------------------------------------------- C11
\* C11: ticks are handled one at a time: a reg_price call that has not
\* ended is the latest call and the loop is inside it (awaiting the sink),
\* so no tick is read, and no reg_price starts, before the previous call
\* has stored its observation.
OneTickAtATime ==
  /\ \A i \in 1..Len(calls) :
       calls[i].outcome = "pending"
         => /\ i = Len(calls)
            /\ pc = "alert"
            /\ cur = [stream |-> calls[i].stream, p |-> calls[i].price]
            /\ price_history[calls[i].stream] = calls[i].pre
  /\ pc = "alert" => (calls # <<>> /\ LastCall.outcome = "pending")

\* a tick of the same monitor waits in the socket while the sink is awaited
OneTickAtATime_Witness ==
  /\ pc = "alert" /\ feed # <<>> /\ Head(feed).stream = cur.stream
  /\ Len(calls) >= 2

\* --------------------------------------------------------------- C12
\* C12: get_price() does not modify the store, and get_price() calls with
\* no store() between them return the same value: in every reachable store
\* a call leaves the map and the maximum as they were and a second call
\* returns what the first did, and while the call of reg_price has not yet
\* stored, a further get_price() returns the value its comparison read.
IdempotentRead ==
  /\ \A s \in DOMAIN monitors :
       LET r1 == get_price_call(price_history[s], max_key[s])
           r2 == get_price_call(r1.price_history, r1.max_key)
       IN /\ r1.price_history = price_history[s]
          /\ r1.max_key = max_key[s]
          /\ r2.value = r1.value
  /\ (calls # <<>> /\ LastCall.outcome \in {"pending", "SinkError", "ZeroDivisionError"})
       => /\ get_price_call(price_history[LastCall.stream], max_key[LastCall.stream]).value
               = LastCall.stored
          /\ price_history[LastCall.stream] = LastCall.pre
          /\ max_key[LastCall.stream] = LastCall.preMax

\* the comparison read a maximum that had already expired, and no store
\* has followed yet
IdempotentRead_Witness ==
  /\ calls # <<>> /\ LastCall.outcome = "pending" /\ now > LastCall.cmpAt
  /\ LastCall.cmpAt - LastCall.pre[LastCall.preMax] > Lifetime

\* --------------------------------------------------------------- C13
\* C13: handling a tick of stream A changes the map and the maximum of A's
\* monitor only; the monitor table (its keys and what they map to) is
\* changed by no step.
OnlyOwnStoreChanges ==
  [][/\ monitors' = monitors
     /\ DOMAIN price_history' = DOMAIN monitors
     /\ DOMAIN max_key' = DOMAIN monitors
     /\ \A s \in DOMAIN monitors :
          (price_history'[s] # price_history[s] \/ max_key'[s] # max_key[s])
            => \/ pc = "alert" /\ s = cur.stream
               \/ pc = "recv" /\ feed # <<>> /\ feed' = Tail(feed) /\ s = Head(feed).stream]_vars

\* two monitors, each holding observations of its own
OnlyOwnStoreChanges_Witness ==
  /\ mode = "live"
  /\ \E a, b \in DOMAIN monitors :
       /\ a # b
       /\ Cardinality(DOMAIN price_history[a]) >= 2
       /\ Cardinality(DOMAIN price_history[b]) >= 2
       /\ DOMAIN price_history[a] # DOMAIN price_history[b]
       /\ max_key[a] # max_key[b]

\* --------------------------------------------------------------- C14
\* C14: init_monitors(config) gives a table whose keys are exactly the
\* stream names symbol@trade of the configured symbols, with one monitor
\* per configuration entry carrying that entry's symbol and threshold, all
\* with the same sink; entries naming the same symbol are not merged.
TableCoversConfig ==
  mode = "live" =>
    /\ DOMAIN monitors = {StreamName(config[i].symbol) : i \in 1..Len(config)}
    /\ \A i \in 1..Len(config) :
         /\ monitors[StreamName(config[i].symbol)].symbol = config[i].symbol
         /\ monitors[StreamName(config[i].symbol)].threshold = config[i].alert_threshold
    /\ Cardinality(DOMAIN monitors) = Len(config)
    /\ \A a, b \in DOMAIN monitors : monitors[a].alert_service = monitors[b].alert_service

\* --------------------------------------------------------------- C15
\* C15: the eviction test is strict: store() removes only entries strictly
\* older than the lifetime relative to the new observation, a maximum aged
\* exactly the lifetime stays, and eviction stops at the first maximum that
\* is not older than the lifetime (every removed key lies above every key
\* that is not expired).
StrictEviction ==
  (calls # <<>> /\ LastCall.outcome \in {"stored", "ValueError"}) =>
    LET c == LastCall
        h == price_history[c.stream]
        removed == (DOMAIN c.pre) \ (DOMAIN h)
        notExpired == {k \in DOMAIN c.pre : c.at - c.pre[k] <= Lifetime}
    IN /\ \A k \in removed : c.at - c.pre[k] > Lifetime
       /\ c.at - c.pre[c.preMax] <= Lifetime => removed = {}
       /\ \A k \in removed : \A j \in notExpired : k > j

\* a real maximum aged exactly the lifetime survived the store of another price
StrictEviction_Witness ==
  /\ calls # <<>> /\ LastCall.outcome = "stored"
  /\ LastCall.preMax # Sentinel /\ LastCall.preMax # LastCall.price
  /\ LastCall.at - LastCall.pre[LastCall.preMax] = Lifetime
  /\ LastCall.preMax \in DOMAIN price_history[LastCall.stream]
  /\ price_history[LastCall.stream][LastCall.preMax] = LastCall.pre[LastCall.preMax]

\* --------------------------------------------------------------- C16
\* the last completed call stored a price that was a key of the map and
\* was not evicted in that call
RepeatedPriceStored ==
  /\ calls # <<>> /\ LastCall.outcome = "stored"
  /\ LastCall.price \in (DOMAIN LastCall.pre) \ ExpiredTop(LastCall.pre, LastCall.at)

\* C16 as stated: storing a price that is an existing key, not evicted in
\* that call, leaves the number of entries unchanged and replaces the key's
\* timestamp with the new one.
RepeatedPriceKeepsSize ==
  RepeatedPriceStored =>
    /\ Cardinality(DOMAIN price_history[LastCall.stream]) = Cardinality(DOMAIN LastCall.pre)
    /\ price_history[LastCall.stream][LastCall.price] = LastCall.at

\* C16 amended: such a store adds no entry (the number of entries is the
\* number before less the entries evicted in that call) and replaces the
\* key's timestamp; and an observation is in the map, no older than it was
\* stored, as long as the latest store is within the lifetime of it.
RepeatedPriceAddsNoEntry ==
  /\ RepeatedPriceStored =>
       /\ Cardinality(DOMAIN price_history[LastCall.stream]) =
            Cardinality(DOMAIN LastCall.pre)
              - Cardinality(ExpiredTop(LastCall.pre, LastCall.at))
       /\ price_history[LastCall.stream][LastCall.price] = LastCall.at
  /\ \A s \in DOMAIN monitors :
       (StoredOn(s) # {} /\ calls[MaxOf(CallsOn(s))].outcome # "ValueError") =>
         \A i \in StoredOn(s) :
           calls[MaxOf(StoredOn(s))].at - calls[i].at <= Lifetime
             => /\ calls[i].price \in DOMAIN price_history[s]
                /\ price_history[s][calls[i].price] >= calls[i].at

\* a repeated price was stored with a new timestamp in a call that evicted
\* the expired maximum
RepeatedPriceAddsNoEntry_Witness ==
  /\ RepeatedPriceStored
  /\ LastCall.pre[LastCall.price] < LastCall.at
  /\ ExpiredTop(LastCall.pre, LastCall.at) # {}

\* --------------------------------------------------------------- C17
\* C17: the relative-drop comparison raises for no pair of finite inputs,
\* price 0 included, so reg_price(0) completes and stores the observation.
ComparisonNeverRaises ==
  /\ err # "ZeroDivisionError"
  /\ (calls # <<>> /\ LastCall.outcome # "pending")
       => DROP_RELATIVE(LastCall.stored, LastCall.price).err = "none"
  /\ (calls # <<>> /\ LastCall.price = 0 /\ LastCall.outcome # "pending")
       => /\ LastCall.outcome = "stored"
          /\ 0 \in DOMAIN price_history[LastCall.stream]

\* --------------------------------------------------------------- C18
\* C18: in every state reached through completed store() calls, max_key is
\* a key of the map and is the largest of all its keys, expired or not, so
\* the lookup of the maximum entry at the start of store() finds an entry.
MaxKeyIsLargestKey ==
  /\ err # "AttributeError"
  /\ \A s \in DOMAIN monitors :
       (CallsOn(s) = {} \/ calls[MaxOf(CallsOn(s))].outcome # "ValueError")
         => /\ max_key[s] \in DOMAIN price_history[s]
            /\ \A k \in DOMAIN price_history[s] : k <= max_key[s]
            /\ EvictLoop(price_history[s], max_key[s], now).err # "AttributeError"

\* a store popped the expired maximum and the maximum recomputed from the
\* remaining keys stayed above the new price
MaxKeyIsLargestKey_Witness ==
  /\ calls # <<>> /\ LastCall.outcome = "stored"
  /\ LastCall.preMax \notin DOMAIN price_history[LastCall.stream]
  /\ max_key[LastCall.stream] > LastCall.price
  /\ Cardinality(DOMAIN price_history[LastCall.stream]) >= 3

\* --------------------------------------------------------------- C19
\* C19: store() removes only entries that were the maximum and expired
\* when removed: every entry below the first maximum that is not expired
\* keeps its key and timestamp, even when it is older than the lifetime.
OnlyExpiredMaximaRemoved ==
  (calls # <<>> /\ LastCall.outcome = "stored") =>
    LET c == LastCall
        h == price_history[c.stream]
        notExpired == {k \in DOMAIN c.pre : c.at - c.pre[k] <= Lifetime}
    IN /\ notExpired # {}
       /\ \A k \in (DOMAIN c.pre) \ {c.price} :
            k < MaxOf(notExpired) => (k \in DOMAIN h /\ h[k] = c.pre[k])
       /\ \A k \in (DOMAIN c.pre) \ (DOMAIN h) :
            \A j \in DOMAIN c.pre : j >= k => c.at - c.pre[j] > Lifetime

\* an observed price older than the lifetime stayed in the map, untouched,
\* below a maximum that is not expired
OnlyExpiredMaximaRemoved_Witness ==
  /\ calls # <<>> /\ LastCall.outcome = "stored"
  /\ \E k \in (DOMAIN LastCall.pre) \ {Sentinel, LastCall.price} :
       /\ LastCall.at - LastCall.pre[k] > Lifetime
       /\ k \in DOMAIN price_history[LastCall.stream]
       /\ price_history[LastCall.stream][k] = LastCall.pre[k]
       /\ \E j \in DOMAIN LastCall.pre : j > k /\ LastCall.at - LastCall.pre[j] <= Lifetime

\* --------------------------------------------------------------- C20
\* C20: the eviction loop of store() ends for every store and every new
\* observation: each iteration leaves the loop or removes one entry, so a
\* store() pops at most as many entries as the map held on entry.
EvictionLoopTerminates ==
  /\ err # "NoTermination"
  /\ \A i \in 1..Len(calls) :
       /\ calls[i].evictions <= Cardinality(DOMAIN calls[i].pre)
       /\ calls[i].outcome = "ValueError"
            => calls[i].evictions = Cardinality(DOMAIN calls[i].pre)
  /\ (calls # <<>> /\ LastCall.outcome = "stored")
       => LastCall.evictions = Cardinality(ExpiredTop(LastCall.pre, LastCall.at))
  /\ \A s \in DOMAIN monitors : \A t \in now..(MaxTime + Lifetime + 1) :
       LET e == EvictLoop(price_history[s], max_key[s], t)
       IN /\ e.err # "NoTermination"
          /\ e.evictions <= Cardinality(DOMAIN price_history[s])
          /\ Cardinality(DOMAIN e.price_history)
               = Cardinality(DOMAIN price_history[s]) - e.evictions

\* one store() popped two entries or more
EvictionLoopTerminates_Witness ==
  /\ calls # <<>> /\ LastCall.evictions >= 2
  /\ LastCall.outcome \in {"stored", "ValueError"}

====
